---- MODULE Spec2Model ----
(***************************************************************************)
(* Model of cmd/set-nas-status (and the GetClientsetConfig it shares with  *)
(* cmd/dra-example-controller): the status-setter tool's run, from flag    *)
(* binding and validation to the retry-on-conflict status write against    *)
(* the per-node NodeAllocationState record held by the cluster API.        *)
(***************************************************************************)
EXTENDS Integers, Sequences, FiniteSets, TLC

\* ------------------------------------------------------------------ bounds

\* Writes to the record by writers other than the modelled runs of the tool.
MaxExternalWrites == 2
\* The same, where one run is followed over every command line.
MaxCLIExternalWrites == 1
\* The same, where one run is followed through its whole retry budget.
MaxRetryExternalWrites == 5
\* Times the node object is deleted and re-created under the same name.
MaxNodeRecreates == 1

\* --------------------------------------------------------------- constants

\* retry.DefaultRetry.Steps: the conflict-retry budget SetStatus passes on.
DefaultRetrySteps == 5

\* The two concurrently running invocations of the tool on one node.
Writers == {"w1", "w2"}

\* NODE_NAME and POD_NAMESPACE of the node both invocations run on.
NodeName == "node-1"
PodNamespace == "driver-ns"

\* ----------------------------------------------------------------- strings
\* A string is a sequence of one-character strings.

UpperLetters ==
    << "A", "B", "C", "D", "E", "F", "G", "H", "I", "J", "K", "L", "M",
       "N", "O", "P", "Q", "R", "S", "T", "U", "V", "W", "X", "Y", "Z" >>

LowerLetters ==
    << "a", "b", "c", "d", "e", "f", "g", "h", "i", "j", "k", "l", "m",
       "n", "o", "p", "q", "r", "s", "t", "u", "v", "w", "x", "y", "z" >>

ToLowerChar(c) ==
    IF \E i \in 1..26 : UpperLetters[i] = c
    THEN LowerLetters[CHOOSE i \in 1..26 : UpperLetters[i] = c]
    ELSE c

ToUpperChar(c) ==
    IF \E i \in 1..26 : LowerLetters[i] = c
    THEN UpperLetters[CHOOSE i \in 1..26 : LowerLetters[i] = c]
    ELSE c

\* strings.ToLower
ToLower(s) == [i \in 1..Len(s) |-> ToLowerChar(s[i])]

NodeAllocationStateStatusReady == << "R", "e", "a", "d", "y" >>
NodeAllocationStateStatusNotReady == << "N", "o", "t", "R", "e", "a", "d", "y" >>

\* The status of a record nobody has set yet.
StatusUnset == << >>

\* ------------------------------------------------------------ ValidateFlags

ValidateFlags_CaseSensitive(status) ==
    IF status = NodeAllocationStateStatusReady
    THEN [err |-> "nil", status |-> NodeAllocationStateStatusReady]
    ELSE IF status = NodeAllocationStateStatusNotReady
    THEN [err |-> "nil", status |-> NodeAllocationStateStatusNotReady]
    ELSE [err |-> "unknown status", status |-> status]

\* ValidateFlags: the error it returns and the value it leaves in *f.status.
ValidateFlags(status) ==
    IF ToLower(status) = ToLower(NodeAllocationStateStatusReady)
    THEN [err |-> "nil", status |-> NodeAllocationStateStatusReady]
    ELSE IF ToLower(status) = ToLower(NodeAllocationStateStatusNotReady)
    THEN [err |-> "nil", status |-> NodeAllocationStateStatusNotReady]
    ELSE [err |-> "unknown status", status |-> status]

\* ------------------------------------------------------- GetClientsetConfig

GetClientsetConfig_FlagFirst(kubeconfigFlag, kubeconfigEnv) ==
    LET path == IF kubeconfigFlag # "" THEN kubeconfigFlag ELSE kubeconfigEnv
    IN  [kubeconfig |-> path,
         source |-> IF path = "" THEN "in-cluster" ELSE "file",
         path |-> path]

\* GetClientsetConfig: the value it leaves in *f.kubeconfig and the source
\* (and file path) of the client configuration it builds.
GetClientsetConfig(kubeconfigFlag, kubeconfigEnv) ==
    LET path == IF kubeconfigEnv # "" THEN kubeconfigEnv ELSE kubeconfigFlag
    IN  [kubeconfig |-> path,
         source |-> IF path = "" THEN "in-cluster" ELSE "file",
         path |-> path]

\* --------------------------------------------------------- PersistentPreRunE

\* One flag under PersistentPreRunE: a flag not given on the command line
\* takes the value of the environment variable of its name when that is set.
BindEnv(flag, envVal, empty) ==
    IF ~flag.changed /\ envVal # empty
    THEN [changed |-> TRUE, val |-> envVal]
    ELSE flag

\* ------------------------------------------------------------------- main

\* main: the process's exit code after command.Execute() returned err.
MainExitCode(e) == 0

\* main (and cobra's Execute) print the error when there is one.
MainPrints(e) == e # "nil"

\* ------------------------------------------------------------ cluster API

RecordKey == [name |-> NodeName, namespace |-> PodNamespace]

\* The cluster's Get by (name, namespace).
ApiGet(st, key) ==
    IF \E r \in st : r.key = key
    THEN [err |-> "nil", obj |-> CHOOSE r \in st : r.key = key]
    ELSE [err |-> "NotFound", obj |-> [key |-> key]]

\* The cluster's Create: names are unique within a namespace.
ApiCreate(st, obj, uid, rv) ==
    IF \E r \in st : r.key = obj.key
    THEN [err |-> "AlreadyExists", store |-> st, obj |-> obj]
    ELSE LET made == [key |-> obj.key, uid |-> uid, rv |-> rv,
                      status |-> obj.status, owner |-> obj.owner]
         IN  [err |-> "nil", store |-> st \cup {made}, obj |-> made]

\* Whether a write of obj is tied to the version the store holds.
VersionMatches(st, obj) ==
    \E r \in st : r.key = obj.key /\ r.uid = obj.uid /\ r.rv = obj.rv

\* The cluster's Update: a conditional write tied to obj's version.
ApiUpdate(st, obj, rv) ==
    IF ~\E r \in st : r.key = obj.key
    THEN [err |-> "NotFound", store |-> st, obj |-> obj]
    ELSE IF ~VersionMatches(st, obj)
    THEN [err |-> "Conflict", store |-> st, obj |-> obj]
    ELSE LET old == CHOOSE r \in st : r.key = obj.key
             new == [obj EXCEPT !.rv = rv]
         IN  [err |-> "nil", store |-> (st \ {old}) \cup {new}, obj |-> new]

\* ------------------------------------------------ nasclient (StatusClient)

\* The record NewNodeAllocationState builds from crdconfig: named after the
\* node, in the pod's namespace, owned by the node object that was looked up.
NewNodeAllocationState(nodeName, podNamespace, nodeUID) ==
    [key |-> [name |-> nodeName, namespace |-> podNamespace],
     uid |-> 0, rv |-> 0, status |-> StatusUnset, owner |-> nodeUID]

GetOrCreateOnAlreadyExists_Fail == [err |-> "AlreadyExists", next |-> "return"]

\* GetOrCreate, when its Create lost the race: "already exists" counts as
\* success and is followed by a fetch of the existing record.
GetOrCreateOnAlreadyExists == [err |-> "nil", next |-> "goc_fetch"]

\* UpdateStatus: the object it sends, the observed record with the status set.
UpdateStatusObject(nas, status) == [nas EXCEPT !.status = status]

\* ---------------------------------------------------------------- SetStatus

IsConflict(e) == e = "Conflict"

RetryOnConflict_NoRetry(e, n) == "return"

RetryOnConflict_AnyError(e, n) ==
    IF e # "nil" /\ n < DefaultRetrySteps THEN "retry" ELSE "return"

RetryOnConflict_Unbounded(e, n) ==
    IF IsConflict(e) THEN "retry" ELSE "return"

\* retry.RetryOnConflict(retry.DefaultRetry, fn), after fn's n-th call
\* returned e: call fn again, or return e to SetStatus's caller.
RetryOnConflict(e, n) ==
    IF IsConflict(e) /\ n < DefaultRetrySteps THEN "retry" ELSE "return"

AttemptEntry_SkipRefetch(n) == IF n = 1 THEN "goc_get" ELSE "update"

\* The first call of every attempt of the retried function: GetOrCreate.
AttemptEntry(n) == "goc_get"

SetStatusResult_Swallow(e) == "nil"

\* What SetStatus returns when RetryOnConflict returned e.
SetStatusResult(e) == e

\* ---------------------------------------------------------------- inputs

StatusWords == {NodeAllocationStateStatusReady, NodeAllocationStateStatusNotReady}

RECURSIVE CaseVariants(_)
\* Every upper/lower-case spelling of a word.
CaseVariants(word) ==
    IF word = << >> THEN {<< >>}
    ELSE {<<c>> \o t : c \in {ToLowerChar(Head(word)), ToUpperChar(Head(word))},
                       t \in CaseVariants(Tail(word))}

\* Status strings that are no spelling of Ready or NotReady.
OtherStatusInputs ==
    { << >>,
      << "r", "e", "a", "d" >>,
      << "R", "e", "a", "d", "y", " " >>,
      << "r", "e", "a", "d", "y", "y" >>,
      << "n", "o", "t", " ", "r", "e", "a", "d", "y" >>,
      << "N", "o", "t", "R", "e", "a", "d" >>,
      << "n", "o", "t" >>,
      << "o", "k" >>,
      << "R", "3", "a", "d", "y" >>,
      << "U", "n", "k", "n", "o", "w", "n" >> }

StatusInputs ==
    UNION {CaseVariants(w) : w \in StatusWords} \cup OtherStatusInputs

\* --status as given (or not) on the command line, with the STATUS variable.
StatusArgs ==
    {[flag |-> [changed |-> TRUE, val |-> s], env |-> << >>] : s \in StatusInputs}
    \cup
    {[flag |-> [changed |-> FALSE, val |-> << >>], env |-> e] :
        e \in {<< >>, << "r", "e", "a", "d", "y" >>, << "o", "n" >>}}

\* --kubeconfig as given (or not) on the command line, with KUBECONFIG.
KubeconfigArgs ==
    {[flag |-> f, env |-> e] :
        f \in {[changed |-> FALSE, val |-> ""],
               [changed |-> TRUE, val |-> ""],
               [changed |-> TRUE, val |-> "/flag/config"]},
        e \in {"", "/env/config"}}

\* The arguments of the runs of the concurrency specification.
NarrowStatusArgs ==
    {[flag |-> [changed |-> TRUE, val |-> s], env |-> << >>] :
        s \in {<< "r", "e", "a", "d", "y" >>,
               << "N", "O", "T", "r", "e", "a", "d", "y" >>}}

NarrowKubeconfigArgs ==
    {[flag |-> [changed |-> FALSE, val |-> ""], env |-> ""]}

\* ------------------------------------------------------------------ state

VARIABLES
    pc,          \* where each run of the tool stands
    args,        \* the command line: --kubeconfig and --status as given
    flags,       \* Flags: kubeconfig and status, each a [changed, val]
    env,         \* the run's environment: KUBECONFIG and STATUS
    csconfig,    \* the client configuration GetClientsetConfig built
    nas,         \* config.nascrd: the client's copy of the record
    attempt,     \* calls RetryOnConflict has made of the retried function
    err,         \* the error RunE returns
    exitCode,    \* the process's exit code, -1 while it runs
    printed,     \* whether an error was printed
    store,       \* the cluster's NodeAllocationState records
    nodeUID,     \* UID of the node object that now exists under NodeName
    rvLast,      \* the last resource version the cluster handed out
    uidLast,     \* the last record UID the cluster handed out
    networked,   \* whether the run has made a call to the cluster API
    fetchedAt,   \* the attempt in which nas was last read from the cluster
    lastCall,    \* the run's latest UpdateStatus call and what came of it
    lastWrite,   \* owner UID of the run's latest write, and the node's UID then
    retriedOn,   \* the errors after which RetryOnConflict called again
    lostRace,    \* whether a Create of the run met "already exists"
    lastApplied, \* status of the latest write whose version matched
    extWrites,   \* writes by other writers so far
    recreates,   \* node re-creations so far
    faulted      \* whether the cluster API has failed a call of the run transiently

vars ==
    << pc, args, flags, env, csconfig, nas, attempt, err, exitCode, printed, store,
       nodeUID, rvLast, uidLast, networked, fetchedAt, lastCall, lastWrite,
       retriedOn, lostRace, lastApplied, extWrites, recreates, faulted >>

cliVars == << args, flags, env, csconfig, exitCode, printed >>
clusterVars == << store, nodeUID, rvLast, uidLast, lastApplied >>
envVars == << extWrites, recreates >>
loopVars == << attempt, fetchedAt, lastCall, lastWrite, retriedOn, lostRace >>

NoCall ==
    [done |-> FALSE, uid |-> 0, rv |-> 0, result |-> "none",
     matched |-> FALSE, persisted |-> FALSE, fault |-> FALSE]

InitWith(statusArgs, kubeconfigArgs, second) ==
    /\ pc = [w \in Writers |-> "prerun"]
    /\ \E sa \in statusArgs, ka \in kubeconfigArgs, sb \in second :
          /\ flags = [w \in Writers |->
                        IF w = "w1"
                        THEN [kubeconfig |-> ka.flag, status |-> sa.flag]
                        ELSE [kubeconfig |-> ka.flag, status |-> sb.flag]]
          /\ env = [w \in Writers |->
                        IF w = "w1"
                        THEN [KUBECONFIG |-> ka.env, STATUS |-> sa.env]
                        ELSE [KUBECONFIG |-> ka.env, STATUS |-> sb.env]]
    /\ args = flags
    /\ csconfig = [w \in Writers |-> [source |-> "none", path |-> ""]]
    /\ nas = [w \in Writers |-> NewNodeAllocationState(NodeName, PodNamespace, 0)]
    /\ attempt = [w \in Writers |-> 0]
    /\ err = [w \in Writers |-> "nil"]
    /\ exitCode = [w \in Writers |-> -1]
    /\ printed = [w \in Writers |-> FALSE]
    /\ store = {}
    /\ nodeUID = 1
    /\ rvLast = 0
    /\ uidLast = 0
    /\ networked = [w \in Writers |-> FALSE]
    /\ fetchedAt = [w \in Writers |-> 0]
    /\ lastCall = [w \in Writers |-> NoCall]
    /\ lastWrite = [w \in Writers |-> [owner |-> 0, node |-> 0]]
    /\ retriedOn = [w \in Writers |-> {}]
    /\ lostRace = [w \in Writers |-> FALSE]
    /\ lastApplied = StatusUnset
    /\ extWrites = 0
    /\ recreates = 0
    /\ faulted = [w \in Writers |-> FALSE]

\* Two runs of the tool on one node, each asked for a valid status.
Init == InitWith(NarrowStatusArgs, NarrowKubeconfigArgs, NarrowStatusArgs)

\* The arguments of the run that is never started.
NoStatusArgs == {[flag |-> [changed |-> FALSE, val |-> << >>], env |-> << >>]}

\* One run of the tool, over every status given and every way of naming
\* the client configuration.
InitCLI ==
    \/ InitWith(StatusArgs, NarrowKubeconfigArgs, NoStatusArgs)
    \/ InitWith(NarrowStatusArgs, KubeconfigArgs, NoStatusArgs)

\* One run of the tool, asked for a valid status.
InitRetry == InitWith(NarrowStatusArgs, NarrowKubeconfigArgs, NoStatusArgs)

\* ---------------------------------------------------------------- the run

\* RunE returns e: main is left to report it.
Fail(w, e) ==
    /\ pc' = [pc EXCEPT ![w] = "main"]
    /\ err' = [err EXCEPT ![w] = e]

\* PersistentPreRunE: bind an environment variable to each input flag.
PersistentPreRunE(w) ==
    /\ pc[w] = "prerun"
    /\ flags' = [flags EXCEPT
                   ![w].kubeconfig = BindEnv(@, env[w].KUBECONFIG, ""),
                   ![w].status = BindEnv(@, env[w].STATUS, << >>)]
    /\ pc' = [pc EXCEPT ![w] = "validate"]
    /\ UNCHANGED << args, env, csconfig, nas, err, exitCode, printed, networked >>
    /\ UNCHANGED << clusterVars, envVars, loopVars, faulted >>

\* RunE, first step: ValidateFlags.
RunValidate(w) ==
    /\ pc[w] = "validate"
    /\ LET v == ValidateFlags(flags[w].status.val)
       IN  /\ flags' = [flags EXCEPT ![w].status.val = v.status]
           /\ IF v.err # "nil"
              THEN Fail(w, "validate flags")
              ELSE /\ pc' = [pc EXCEPT ![w] = "config"]
                   /\ err' = err
    /\ UNCHANGED << args, env, csconfig, nas, exitCode, printed, networked >>
    /\ UNCHANGED << clusterVars, envVars, loopVars, faulted >>

\* RunE, second step: GetClientsetConfig, whose build of the configuration
\* (from the named file, or from the pod's service account) may fail.
RunGetClientsetConfig(w) ==
    /\ pc[w] = "config"
    /\ LET c == GetClientsetConfig(flags[w].kubeconfig.val, env[w].KUBECONFIG)
       IN  /\ flags' = [flags EXCEPT ![w].kubeconfig.val = c.kubeconfig]
           /\ \E ok \in BOOLEAN :
                IF ok
                THEN /\ csconfig' = [csconfig EXCEPT
                                       ![w] = [source |-> c.source, path |-> c.path]]
                     /\ pc' = [pc EXCEPT ![w] = "clients"]
                     /\ err' = err
                ELSE /\ csconfig' = csconfig
                     /\ Fail(w, "create client configuration")
    /\ UNCHANGED << args, env, nas, exitCode, printed, networked >>
    /\ UNCHANGED << clusterVars, envVars, loopVars, faulted >>

\* RunE, third step: the two NewForConfig calls.
RunNewClients(w) ==
    /\ pc[w] = "clients"
    /\ \E e \in {"nil", "create core client", "create example.com client"} :
          IF e = "nil"
          THEN /\ pc' = [pc EXCEPT ![w] = "getnode"]
               /\ err' = err
          ELSE Fail(w, e)
    /\ UNCHANGED << cliVars, nas, networked >>
    /\ UNCHANGED << clusterVars, envVars, loopVars, faulted >>

\* RunE, fourth step: look the node up and build the record's configuration
\* with the node's UID as owner.
RunGetNode(w) ==
    /\ pc[w] = "getnode"
    /\ networked' = [networked EXCEPT ![w] = TRUE]
    /\ \E ok \in BOOLEAN :
          IF ok
          THEN /\ nas' = [nas EXCEPT
                            ![w] = NewNodeAllocationState(NodeName, PodNamespace, nodeUID)]
               /\ pc' = [pc EXCEPT ![w] = "setstatus"]
               /\ err' = err
          ELSE /\ nas' = nas
               /\ Fail(w, "get node object")
    /\ UNCHANGED << cliVars, clusterVars, envVars, loopVars, faulted >>

\* SetStatus is entered: RetryOnConflict makes its first call.
SetStatusEnter(w) ==
    /\ pc[w] = "setstatus"
    /\ attempt' = [attempt EXCEPT ![w] = 1]
    /\ pc' = [pc EXCEPT ![w] = AttemptEntry(1)]
    /\ UNCHANGED << cliVars, nas, err, networked, clusterVars, envVars >>
    /\ UNCHANGED << fetchedAt, lastCall, lastWrite, retriedOn, lostRace, faulted >>

\* The retried function returned e in its attempt[w]-th call.
Returned(w, e) ==
    IF RetryOnConflict(e, attempt[w]) = "retry"
    THEN /\ attempt' = [attempt EXCEPT ![w] = @ + 1]
         /\ retriedOn' = [retriedOn EXCEPT ![w] = @ \cup {e}]
         /\ pc' = [pc EXCEPT ![w] = AttemptEntry(attempt[w] + 1)]
         /\ err' = err
    ELSE /\ attempt' = attempt
         /\ retriedOn' = retriedOn
         /\ Fail(w, SetStatusResult(e))

\* The record the client would create: the configured identity and owner.
ConfiguredRecord(w) ==
    NewNodeAllocationState(nas[w].key.name, nas[w].key.namespace, nas[w].owner)

\* GetOrCreate, its Get.
GetOrCreateGet(w) ==
    /\ pc[w] = "goc_get"
    /\ networked' = [networked EXCEPT ![w] = TRUE]
    /\ \E fault \in BOOLEAN :
          LET r == IF fault THEN [err |-> "Transient"] ELSE ApiGet(store, nas[w].key)
          IN  /\ faulted' = [faulted EXCEPT ![w] = @ \/ fault]
              /\ IF r.err = "nil"
                 THEN /\ nas' = [nas EXCEPT ![w] = r.obj]
                      /\ fetchedAt' = [fetchedAt EXCEPT ![w] = attempt[w]]
                      /\ pc' = [pc EXCEPT ![w] = "update"]
                      /\ UNCHANGED << attempt, retriedOn, err >>
                 ELSE IF r.err = "NotFound"
                 THEN /\ pc' = [pc EXCEPT ![w] = "goc_create"]
                      /\ UNCHANGED << nas, fetchedAt, attempt, retriedOn, err >>
                 ELSE /\ Returned(w, r.err)
                      /\ UNCHANGED << nas, fetchedAt >>
    /\ UNCHANGED << cliVars, clusterVars, envVars, lastCall, lastWrite, lostRace >>

\* GetOrCreate, its Create after the Get found nothing.
GetOrCreateCreate(w) ==
    /\ pc[w] = "goc_create"
    /\ networked' = [networked EXCEPT ![w] = TRUE]
    /\ \E fault \in BOOLEAN :
          LET absent == ~\E x \in store : x.key = nas[w].key
              r == IF fault
                   THEN [err |-> "Transient", store |-> store]
                   ELSE ApiCreate(store, ConfiguredRecord(w), uidLast + 1, rvLast + 1)
          IN  /\ faulted' = [faulted EXCEPT ![w] = @ \/ fault]
              /\ store' = r.store
              /\ IF r.err = "nil"
                 THEN /\ nas' = [nas EXCEPT ![w] = r.obj]
                      /\ uidLast' = uidLast + 1
                      /\ rvLast' = rvLast + 1
                      /\ fetchedAt' = [fetchedAt EXCEPT ![w] = attempt[w]]
                      /\ lastWrite' = [lastWrite EXCEPT
                                         ![w] = [owner |-> r.obj.owner, node |-> nodeUID]]
                      /\ lastApplied' = IF absent THEN StatusUnset ELSE lastApplied
                      /\ pc' = [pc EXCEPT ![w] = "update"]
                      /\ UNCHANGED << attempt, retriedOn, err, lostRace >>
                 ELSE IF r.err = "AlreadyExists"
                 THEN /\ lostRace' = [lostRace EXCEPT ![w] = TRUE]
                      /\ IF GetOrCreateOnAlreadyExists.next = "goc_fetch"
                         THEN /\ pc' = [pc EXCEPT ![w] = "goc_fetch"]
                              /\ UNCHANGED << attempt, retriedOn, err >>
                         ELSE Returned(w, GetOrCreateOnAlreadyExists.err)
                      /\ UNCHANGED << nas, uidLast, rvLast, fetchedAt, lastWrite,
                                      lastApplied >>
                 ELSE /\ Returned(w, r.err)
                      /\ UNCHANGED << nas, uidLast, rvLast, fetchedAt, lastWrite,
                                      lastApplied, lostRace >>
    /\ UNCHANGED << cliVars, nodeUID, envVars, lastCall >>

\* GetOrCreate, its fetch of the record another creator made first.
GetOrCreateFetch(w) ==
    /\ pc[w] = "goc_fetch"
    /\ networked' = [networked EXCEPT ![w] = TRUE]
    /\ \E fault \in BOOLEAN :
          LET r == IF fault THEN [err |-> "Transient"] ELSE ApiGet(store, nas[w].key)
          IN  /\ faulted' = [faulted EXCEPT ![w] = @ \/ fault]
              /\ IF r.err = "nil"
                 THEN /\ nas' = [nas EXCEPT ![w] = r.obj]
                      /\ fetchedAt' = [fetchedAt EXCEPT ![w] = attempt[w]]
                      /\ pc' = [pc EXCEPT ![w] = "update"]
                      /\ UNCHANGED << attempt, retriedOn, err >>
                 ELSE /\ Returned(w, r.err)
                      /\ UNCHANGED << nas, fetchedAt >>
    /\ UNCHANGED << cliVars, clusterVars, envVars, lastCall, lastWrite, lostRace >>

\* UpdateStatus: set the status on the observed record and write it back,
\* tied to the observed version.
UpdateStatus(w) ==
    /\ pc[w] = "update"
    /\ networked' = [networked EXCEPT ![w] = TRUE]
    /\ \E fault \in BOOLEAN :
          LET status == flags[w].status.val
              obj == UpdateStatusObject(nas[w], status)
              matched == VersionMatches(store, nas[w])
              r == IF fault
                   THEN [err |-> "Transient", store |-> store, obj |-> obj]
                   ELSE ApiUpdate(store, obj, rvLast + 1)
          IN  /\ faulted' = [faulted EXCEPT ![w] = @ \/ fault]
              /\ store' = r.store
              /\ rvLast' = IF r.err = "nil" THEN rvLast + 1 ELSE rvLast
              /\ nas' = IF r.err = "nil" THEN [nas EXCEPT ![w] = r.obj] ELSE nas
              /\ lastCall' = [lastCall EXCEPT ![w] =
                    [done |-> TRUE, uid |-> nas[w].uid, rv |-> nas[w].rv,
                     result |-> r.err, matched |-> matched, fault |-> fault,
                     persisted |-> \E x \in r.store :
                                      /\ x.key = nas[w].key
                                      /\ x.rv = rvLast + 1
                                      /\ x.status = status]]
              /\ lastApplied' = IF matched /\ ~fault THEN status ELSE lastApplied
              /\ lastWrite' = IF r.err = "nil"
                              THEN [lastWrite EXCEPT
                                      ![w] = [owner |-> obj.owner, node |-> nodeUID]]
                              ELSE lastWrite
              /\ Returned(w, r.err)
    /\ UNCHANGED << cliVars, nodeUID, uidLast, envVars, fetchedAt, lostRace >>

\* main: report what Execute returned and end the process.
Main(w) ==
    /\ pc[w] = "main"
    /\ exitCode' = [exitCode EXCEPT ![w] = MainExitCode(err[w])]
    /\ printed' = [printed EXCEPT ![w] = MainPrints(err[w])]
    /\ pc' = [pc EXCEPT ![w] = "exited"]
    /\ UNCHANGED << args, flags, env, csconfig, nas, err, networked >>
    /\ UNCHANGED << clusterVars, envVars, loopVars, faulted >>

\* ------------------------------------------------------------ environment

\* Another writer (the controller, a node plugin) updates the record.
ExternalUpdate(max) ==
    /\ extWrites < max
    /\ \E r \in store :
          store' = (store \ {r}) \cup {[r EXCEPT !.rv = rvLast + 1]}
    /\ rvLast' = rvLast + 1
    /\ extWrites' = extWrites + 1
    /\ UNCHANGED << pc, cliVars, nas, err, networked, nodeUID, uidLast,
                    lastApplied, recreates, loopVars, faulted >>

\* Another creator (the controller, a node plugin) creates the node's record
\* before the run does.
ExternalCreate(max) ==
    /\ extWrites < max
    /\ ~\E r \in store : r.key = RecordKey
    /\ store' = ApiCreate(store,
                          NewNodeAllocationState(NodeName, PodNamespace, nodeUID),
                          uidLast + 1, rvLast + 1).store
    /\ uidLast' = uidLast + 1
    /\ rvLast' = rvLast + 1
    /\ lastApplied' = StatusUnset
    /\ extWrites' = extWrites + 1
    /\ UNCHANGED << pc, cliVars, nas, err, networked, nodeUID, recreates,
                    loopVars, faulted >>

\* The node object is deleted and re-created: same name, new UID.
NodeRecreate ==
    /\ recreates < MaxNodeRecreates
    /\ nodeUID' = nodeUID + 1
    /\ recreates' = recreates + 1
    /\ UNCHANGED << pc, cliVars, nas, err, networked, store, rvLast, uidLast,
                    lastApplied, extWrites, loopVars, faulted >>

\* The cluster's garbage collector deletes a record whose owner is gone.
GarbageCollect ==
    /\ \E r \in store :
          /\ r.owner # nodeUID
          /\ store' = store \ {r}
    /\ UNCHANGED << pc, cliVars, nas, err, networked, nodeUID, rvLast, uidLast,
                    lastApplied, envVars, loopVars, faulted >>

\* ------------------------------------------------------------ specification

Run(w) ==
    \/ PersistentPreRunE(w)
    \/ RunValidate(w)
    \/ RunGetClientsetConfig(w)
    \/ RunNewClients(w)
    \/ RunGetNode(w)
    \/ SetStatusEnter(w)
    \/ GetOrCreateGet(w)
    \/ GetOrCreateCreate(w)
    \/ GetOrCreateFetch(w)
    \/ UpdateStatus(w)
    \/ Main(w)

OtherWriters(max) ==
    \/ ExternalCreate(max)
    \/ ExternalUpdate(max)

Environment(max) ==
    \/ OtherWriters(max)
    \/ NodeRecreate
    \/ GarbageCollect

\* Two runs race for the record of a node that stays, beside other writers.
Next == (\E w \in Writers : Run(w)) \/ OtherWriters(MaxExternalWrites)

\* One run, beside other writers, of a node that may be re-created.
NextCLI == Run("w1") \/ Environment(MaxCLIExternalWrites)

NextRetry == Run("w1") \/ Environment(MaxRetryExternalWrites)

Spec == Init /\ [][Next]_vars

SpecCLI == InitCLI /\ [][NextCLI]_vars

SpecRetry == InitRetry /\ [][NextRetry]_vars

\* A run of the tool is a sequential process: its next step always comes.
FairSpecRetry == SpecRetry /\ WF_vars(Run("w1"))

\* ------------------------------------------------------------ properties

HasReturned(w) == pc[w] \in {"main", "exited"}

\* SetStatus was called and has returned.
SetStatusReturned(w) == HasReturned(w) /\ attempt[w] >= 1

\* No writer but the two runs touched the record, and no call failed.
NoInterference ==
    /\ extWrites = 0
    /\ recreates = 0
    /\ \A w \in Writers : ~faulted[w]

ReadyVariants == CaseVariants(NodeAllocationStateStatusReady)
NotReadyVariants == CaseVariants(NodeAllocationStateStatusNotReady)

\* The status string ValidateFlags is given: --status, else STATUS.
StatusInput(w) == BindEnv(args[w].status, env[w].STATUS, << >>).val

\* C4: a run of the tool that fails, for whatever reason, ends with a
\* non-zero exit code and a printed error.
C4_FailureExitsNonZero ==
    \A w \in Writers :
        pc[w] = "exited" /\ err[w] # "nil" =>
            exitCode[w] # 0 /\ printed[w]

\* C5: every upper/lower-case spelling of Ready is normalized to Ready and
\* every spelling of NotReady to NotReady; any other status string is
\* rejected, and the run that rejected it makes no call to the cluster.
C5_StatusValidation ==
    \A w \in Writers :
        pc[w] \notin {"prerun", "validate"} =>
            /\ StatusInput(w) \in ReadyVariants =>
                  /\ err[w] # "validate flags"
                  /\ flags[w].status.val = NodeAllocationStateStatusReady
            /\ StatusInput(w) \in NotReadyVariants =>
                  /\ err[w] # "validate flags"
                  /\ flags[w].status.val = NodeAllocationStateStatusNotReady
            /\ StatusInput(w) \notin ReadyVariants \cup NotReadyVariants =>
                  /\ err[w] = "validate flags"
                  /\ ~networked[w]
                  /\ csconfig[w].source = "none"
                  /\ attempt[w] = 0
                  /\ ~lastCall[w].done

\* A mixed-case spelling was accepted and normalized, and the run went on.
C5_Witness ==
    /\ pc["w1"] = "setstatus"
    /\ StatusInput("w1") = << "n", "O", "t", "R", "E", "a", "d", "Y" >>
    /\ flags["w1"].status.val = NodeAllocationStateStatusNotReady

\* The configuration a run resolved, once it has resolved one.
Resolved(w) == csconfig[w].source # "none"

\* C6 as stated: the --kubeconfig path is used when given; otherwise the
\* KUBECONFIG path when set; otherwise the in-cluster credentials.
C6_FlagBeforeEnvironment ==
    \A w \in Writers :
        Resolved(w) =>
            LET f == args[w].kubeconfig.val
                e == env[w].KUBECONFIG
            IN  /\ f # "" => csconfig[w] = [source |-> "file", path |-> f]
                /\ f = "" /\ e # "" => csconfig[w] = [source |-> "file", path |-> e]
                /\ f = "" /\ e = "" => csconfig[w].source = "in-cluster"

\* C6 as amended: the KUBECONFIG path is used when set, whatever the flag;
\* otherwise the --kubeconfig path when given; otherwise the in-cluster
\* credentials.
C6_EnvironmentBeforeFlag ==
    \A w \in Writers :
        Resolved(w) =>
            LET f == args[w].kubeconfig.val
                e == env[w].KUBECONFIG
            IN  /\ e # "" => csconfig[w] = [source |-> "file", path |-> e]
                /\ e = "" /\ f # "" => csconfig[w] = [source |-> "file", path |-> f]
                /\ e = "" /\ f = "" => csconfig[w].source = "in-cluster"

\* Both a flag path and an environment path were given, and the run
\* resolved its configuration from the environment's.
C6_Witness ==
    /\ Resolved("w1")
    /\ args["w1"].kubeconfig.val = "/flag/config"
    /\ env["w1"].KUBECONFIG = "/env/config"
    /\ csconfig["w1"].path = "/env/config"

\* The statuses the runs that got as far as SetStatus tried to set.
AttemptedStatuses == {flags[w].status.val : w \in {x \in Writers : attempt[x] >= 1}}

\* C1: when two runs fetch the same version of the record and both call
\* UpdateStatus, exactly one write succeeds and the other gets Conflict; with
\* nobody else interfering the loser's retry re-fetches and succeeds, and the
\* record ends with one of the two attempted statuses.
C1_OneWinsLoserRetries ==
    NoInterference =>
        /\ \A a, b \in Writers :
              /\ a # b
              /\ lastCall[a].done /\ lastCall[b].done
              /\ lastCall[a].uid = lastCall[b].uid
              /\ lastCall[a].rv = lastCall[b].rv
              => \/ lastCall[a].result = "nil" /\ lastCall[b].result = "Conflict"
                 \/ lastCall[a].result = "Conflict" /\ lastCall[b].result = "nil"
        /\ \A w \in Writers :
              SetStatusReturned(w) =>
                  /\ err[w] = "nil"
                  /\ lastCall[w].result = "nil"
                  /\ attempt[w] <= 2
        /\ (\A w \in Writers : HasReturned(w)) /\ AttemptedStatuses # {} =>
              /\ Cardinality(store) = 1
              /\ \A r \in store : r.status \in AttemptedStatuses

\* Both runs are over, undisturbed: one of them lost the race on a version
\* both had fetched, retried once and then wrote its status.
C1_Witness ==
    /\ NoInterference
    /\ \A w \in Writers : pc[w] = "exited" /\ err[w] = "nil"
    /\ attempt["w1"] = 1
    /\ attempt["w2"] = 2
    /\ retriedOn["w2"] = {"Conflict"}
    /\ flags["w1"].status.val # flags["w2"].status.val
    /\ \E r \in store : r.status = flags["w2"].status.val

\* C2: no UpdateStatus call is lost silently: a call that reports success
\* has persisted its value under a version that matched, a call that fails
\* has persisted nothing, a write on a mismatched version of the existing
\* record gets Conflict, SetStatus reports success only for a persisted
\* write, and the persisted status is always that of the latest call whose
\* observed version matched.
C2_NoLostWrite ==
    /\ \A w \in Writers :
          lastCall[w].done =>
              /\ lastCall[w].result = "nil" =>
                    lastCall[w].persisted /\ lastCall[w].matched
              /\ lastCall[w].result # "nil" => ~lastCall[w].persisted
              /\ ~lastCall[w].fault /\ lastCall[w].matched =>
                    lastCall[w].result = "nil"
              /\ ~lastCall[w].fault /\ ~lastCall[w].matched /\ recreates = 0 =>
                    lastCall[w].result = "Conflict"
    /\ \A w \in Writers :
          SetStatusReturned(w) /\ err[w] = "nil" =>
              /\ lastCall[w].done
              /\ lastCall[w].result = "nil"
              /\ lastCall[w].persisted
    /\ \A r \in store : r.status = lastApplied

\* One run's write was refused with Conflict and left the other run's
\* status in place.
C2_Witness ==
    \E a, b \in Writers :
        /\ a # b
        /\ lastCall[a].done /\ lastCall[a].result = "Conflict"
        /\ lastCall[b].done /\ lastCall[b].result = "nil"
        /\ flags[a].status.val # flags[b].status.val
        /\ \E r \in store : r.status = flags[b].status.val /\ r.status = lastApplied

\* The runs whose GetOrCreate has resolved a record.
ResolvedRuns == {w \in Writers : fetchedAt[w] >= 1}

\* C3: GetOrCreate is idempotent: the store never holds two records for
\* the node, every GetOrCreate call of every run (retries included)
\* resolves to the one record ever created, and a creator that meets
\* "already exists" goes on to fetch that record instead of failing.
C3_GetOrCreateIdempotent ==
    /\ Cardinality({r \in store : r.key = RecordKey}) <= 1
    /\ recreates = 0 =>
          /\ uidLast <= 1
          /\ \A w \in ResolvedRuns :
                \E r \in store : r.key = nas[w].key /\ r.uid = nas[w].uid
          /\ \A a, b \in ResolvedRuns : nas[a].uid = nas[b].uid
    /\ \A w \in Writers :
          lostRace[w] =>
              /\ err[w] # "AlreadyExists"
              /\ pc[w] = "update" /\ recreates = 0 =>
                    \E r \in store : r.uid = nas[w].uid

\* A run lost the create race, fetched the record the other run had
\* created, and resolved it again in a retry.
C3_Witness ==
    \E a, b \in Writers :
        /\ a # b
        /\ recreates = 0
        /\ lostRace[a] /\ ~lostRace[b]
        /\ pc[a] = "update" /\ attempt[a] = 2 /\ fetchedAt[a] = 2
        /\ fetchedAt[b] >= 1
        /\ nas[a].uid = nas[b].uid

\* C7: every attempt of SetStatus, retries after a Conflict included, calls
\* GetOrCreate before UpdateStatus, so a write is always tied to the version
\* read in the same attempt.
C7_RefetchEveryAttempt ==
    \A w \in Writers :
        pc[w] = "update" => fetchedAt[w] = attempt[w]

\* A run about to write in a retry, holding the version that retry fetched.
C7_Witness ==
    \E w \in Writers :
        /\ pc[w] = "update"
        /\ attempt[w] = 3
        /\ retriedOn[w] = {"Conflict"}
        /\ fetchedAt[w] = 3
        /\ VersionMatches(store, nas[w])

\* C8: SetStatus always terminates: it never makes more attempts than the
\* retry budget, it returns Conflict only once the budget is used up, and
\* the run reaches its end even while other writers keep updating the record.
C8_SetStatusTerminates ==
    /\ [](\A w \in Writers :
            /\ attempt[w] <= DefaultRetrySteps
            /\ SetStatusReturned(w) /\ err[w] = "Conflict" =>
                  attempt[w] = DefaultRetrySteps)
    /\ <>(pc["w1"] = "exited")

\* Every attempt of the budget ended in Conflict, and the run stopped with
\* that error.
C8_Witness ==
    /\ pc["w1"] = "exited"
    /\ err["w1"] = "Conflict"
    /\ attempt["w1"] = DefaultRetrySteps
    /\ extWrites >= DefaultRetrySteps
    /\ ~faulted["w1"]

\* C9 as stated: Conflict errors and transient cluster-API errors alike are
\* retried, and reach the caller only once the retry budget is used up.
C9_ConflictAndTransientRetried ==
    \A w \in Writers :
        SetStatusReturned(w) /\ err[w] \in {"Conflict", "Transient"} =>
            attempt[w] = DefaultRetrySteps

\* C9 as amended: only Conflict errors are retried, and reach the caller
\* only once the retry budget is used up; a transient cluster-API error is
\* never retried: SetStatus returns it at once.
C9_OnlyConflictRetried ==
    \A w \in Writers :
        /\ retriedOn[w] \subseteq {"Conflict"}
        /\ attempt[w] >= 2 => retriedOn[w] = {"Conflict"}
        /\ SetStatusReturned(w) /\ err[w] = "Conflict" =>
              attempt[w] = DefaultRetrySteps
        /\ faulted[w] => SetStatusReturned(w) /\ err[w] = "Transient"

\* A run retried after a Conflict, then met a transient error with budget
\* left and returned it.
C9_Witness ==
    /\ pc["w1"] = "exited"
    /\ retriedOn["w1"] = {"Conflict"}
    /\ attempt["w1"] = 2
    /\ faulted["w1"]
    /\ err["w1"] = "Transient"

\* C10: every write of the record by the tool carries as owner the UID of
\* the node object that exists under the node's name when it is written.
C10_OwnerIsCurrentNode ==
    \A w \in Writers : lastWrite[w].owner = lastWrite[w].node

====
